---------------------------- MODULE Spec2Model ----------------------------
(***************************************************************************)
(* examples/notebooks/ets.ipynb as a state machine: the code cells are     *)
(* executed top to bottom, one statement per step, against a kernel        *)
(* namespace (env) and the objects the calls return (heap).  The two      *)
(* formulations of simple exponential smoothing printed in cell 3 are      *)
(* modelled beside it as a second specification (SpecSES).                 *)
(***************************************************************************)
EXTENDS Integers, Sequences, FiniteSets, TLC

VARIABLES pc, status, env, heap, trace, count, i,
          t, scale, alphaNum, yCur, lSS, lSM, lObs, fSS, fSM

nbvars  == <<pc, status, env, heap, trace, count, i>>
sesvars == <<t, scale, alphaNum, yCur, lSS, lSM, lObs, fSS, fSM>>
vars    == <<pc, status, env, heap, trace, count, i,
             t, scale, alphaNum, yCur, lSS, lSM, lObs, fSS, fSM>>

---------------------------------------------------------------------------
(* The literals of the notebook.  Floating-point literals are kept as the  *)
(* text the source gives.                                                  *)

oildata ==
    << "111.0091", "130.8284", "141.2871", "154.2278",
       "162.7409", "192.1665", "240.7997", "304.2174",
       "384.0046", "429.6622", "359.3169", "437.2519",
       "468.4008", "424.4353", "487.9794", "509.8284",
       "506.3473", "340.1842", "240.2589", "219.0328",
       "172.0747", "252.5901", "221.0711", "276.5188",
       "271.1480", "342.6186", "428.3558", "442.3946",
       "432.7851", "437.2497", "437.2092", "445.3641",
       "453.1950", "454.4096", "422.3789", "456.0371",
       "440.3866", "425.1944", "486.2052", "500.4291",
       "521.2759", "508.9476", "488.8889", "509.8706",
       "456.7229", "473.8166", "525.9509", "549.8338",
       "542.3405" >>

austourists_data ==
    << "30.05251300", "19.14849600", "25.31769200", "27.59143700",
       "32.07645600", "23.48796100", "28.47594000", "35.12375300",
       "36.83848500", "25.00701700", "30.72223000", "28.69375900",
       "36.64098600", "23.82460900", "29.31168300", "31.77030900",
       "35.17787700", "19.77524400", "29.60175000", "34.53884200",
       "41.27359900", "26.65586200", "28.27985900", "35.19115300",
       "42.20566386", "24.64917133", "32.66733514", "37.25735401",
       "45.24246027", "29.35048127", "36.34420728", "41.78208136",
       "49.27659843", "31.27540139", "37.85062549", "38.83704413",
       "51.23690034", "31.83855162", "41.32342126", "42.79900337",
       "55.70835836", "33.40714492", "42.31663797", "45.15712257",
       "59.57607996", "34.83733016", "44.84168072", "46.97124960",
       "60.01903094", "38.37117851", "46.97586413", "50.73379646",
       "61.64687319", "39.29956937", "52.67120908", "54.33231689",
       "66.83435838", "40.87118847", "51.82853579", "57.49190993",
       "65.25146985", "43.06120822", "54.76075713", "59.83447494",
       "73.25702747", "47.69662373", "61.09776802", "66.05576122" >>

\* params_R of cell 6 and params of cell 8 (the same five numbers)
params_oil ==
    << "0.99989969", "0.11888177503085334", "0.80000197",
       "36.46466837", "34.72584983" >>

\* params_R of cell 14
params_austourists ==
    << "0.35445427", "0.03200749", "0.39993387", "0.97999997", "24.01278357",
       "0.97770147", "1.76951063", "-0.50735902", "-6.61171798", "5.34956637" >>

---------------------------------------------------------------------------
(* Dates and pd.date_range.  A date string is given by its numeric fields  *)
(* as written ('1965' is <<1965>>, "1999-03-01" is <<1999, 3, 1>>); the    *)
(* fields left out default to 1, as pandas parses them.                    *)

ParseDate(parts) ==
    [year  |-> parts[1],
     month |-> IF Len(parts) >= 2 THEN parts[2] ELSE 1,
     day   |-> IF Len(parts) >= 3 THEN parts[3] ELSE 1]

\* frequency strings: the number of months of one step and whether the
\* dates are anchored at the start of a year ('AS') or of a month ('3MS')
FreqMonths(freq) == IF freq = "AS" THEN 12 ELSE 3
FreqAnchor(freq) == IF freq = "AS" THEN "year" ELSE "month"

DateLE(a, b) ==
    \/ a.year < b.year
    \/ a.year = b.year /\ a.month < b.month
    \/ a.year = b.year /\ a.month = b.month /\ a.day <= b.day

DateLT(a, b) == DateLE(a, b) /\ a # b

\* d + k months, carrying into the year
AddMonths(d, k) ==
    LET m == (d.year * 12 + (d.month - 1)) + k
    IN  [d EXCEPT !.year = m \div 12, !.month = (m % 12) + 1]

\* the first date on the anchor that is not before d
RollForward(d, anchor) ==
    IF anchor = "year"
    THEN IF d.month = 1 /\ d.day = 1 THEN d
         ELSE [year |-> d.year + 1, month |-> 1, day |-> 1]
    ELSE IF d.day = 1 THEN d
         ELSE [AddMonths(d, 1) EXCEPT !.day = 1]

RECURSIVE DatesFrom(_, _, _)
DatesFrom(d, end, step) ==
    IF DateLE(d, end) THEN <<d>> \o DatesFrom(AddMonths(d, step), end, step)
    ELSE <<>>

\* a variant that leaves the end out
RECURSIVE DatesBefore(_, _, _)
DatesBefore(d, end, step) ==
    IF DateLT(d, end) THEN <<d>> \o DatesBefore(AddMonths(d, step), end, step)
    ELSE <<>>

date_range_open(start, end, freq) ==
    DatesBefore(RollForward(ParseDate(start), FreqAnchor(freq)),
                ParseDate(end), FreqMonths(freq))

\* pd.date_range(start, end, freq=freq): both ends included
date_range(start, end, freq) ==
    DatesFrom(RollForward(ParseDate(start), FreqAnchor(freq)),
              ParseDate(end), FreqMonths(freq))

Quarter(d) == ((d.month - 1) \div 3) + 1

---------------------------------------------------------------------------
(* The code cells, one record per statement.  cell is the index of the     *)
(* cell in the notebook (markdown cells counted), line the first line of   *)
(* the statement in ets.ipynb, tgt the name it binds, recv the name the    *)
(* call or attribute access is made on, args the names passed to it.       *)

NoName == "-"

S(cell, line, op, tgt, recv, attr, args) ==
    [cell |-> cell, line |-> line, op |-> op, tgt |-> tgt,
     recv |-> recv, attr |-> attr, args |-> args]

Cell1 ==
    << S(1, 29, "import", "np", NoName, "numpy", <<>>),
       S(1, 30, "import", "plt", NoName, "matplotlib.pyplot", <<>>),
       S(1, 31, "import", "pd", NoName, "pandas", <<>>),
       S(1, 32, "magic", NoName, NoName, "matplotlib inline", <<>>),
       S(1, 33, "import", "ETSModel", NoName,
         "statsmodels.tsa.exponential_smoothing.ets", <<>>) >>

Cell2 ==
    << S(2, 42, "rcparams", NoName, "plt", "rcParams", <<>>) >>

Cell4 ==
    << S(4, 74, "list", "oildata", NoName, "", <<>>),
       S(4, 89, "series", "oil", "pd", "", <<"oildata">>),
       S(4, 90, "plot", NoName, "oil", "", <<>>),
       S(4, 91, "pltcall", NoName, "plt", "ylabel", <<>>) >>

Cell6 ==
    << S(6, 108, "ETSModel", "model", "ETSModel", "", <<"oil">>),
       S(6, 109, "fit", "fit", "model", "", <<>>),
       S(6, 110, "plot", NoName, "oil", "", <<>>),
       S(6, 111, "plot", NoName, "fit", "fittedvalues", <<>>),
       S(6, 112, "pltcall", NoName, "plt", "ylabel", <<>>),
       S(6, 115, "list", "params_R", NoName, "", <<>>),
       S(6, 116, "smooth", "yhat", "model", "fittedvalues", <<"params_R">>),
       S(6, 117, "plot", NoName, "yhat", "", <<>>),
       S(6, 119, "pltcall", NoName, "plt", "legend", <<>>) >>

\* cell 6 with lines 108 and 109 exchanged
Cell6FitFirst ==
    << S(6, 109, "fit", "fit", "model", "", <<>>),
       S(6, 108, "ETSModel", "model", "ETSModel", "", <<"oil">>) >>
    \o SubSeq(Cell6, 3, Len(Cell6))

\* cell 6 with lines 116 and 117 exchanged
Cell6PlotFirst ==
    SubSeq(Cell6, 1, 6)
    \o << S(6, 117, "plot", NoName, "yhat", "", <<>>),
          S(6, 116, "smooth", "yhat", "model", "fittedvalues", <<"params_R">>),
          S(6, 119, "pltcall", NoName, "plt", "legend", <<>>) >>

Cell8 ==
    << S(8, 135, "ETSModel", "model_heuristic", "ETSModel", "", <<"oil">>),
       S(8, 137, "fit", "fit_heuristic", "model_heuristic", "", <<>>),
       S(8, 138, "plot", NoName, "oil", "", <<>>),
       S(8, 139, "plot", NoName, "fit", "fittedvalues", <<>>),
       S(8, 140, "plot", NoName, "fit_heuristic", "fittedvalues", <<>>),
       S(8, 141, "pltcall", NoName, "plt", "ylabel", <<>>),
       S(8, 144, "list", "params", NoName, "", <<>>),
       S(8, 145, "smooth", "yhat", "model", "fittedvalues", <<"params">>),
       S(8, 146, "plot", NoName, "yhat", "", <<>>),
       S(8, 148, "pltcall", NoName, "plt", "legend", <<>>) >>

Cell10 ==
    << S(10, 165, "summary", NoName, "fit", "", <<>>) >>

Cell11 ==
    << S(11, 174, "summary", NoName, "fit_heuristic", "", <<>>) >>

Cell13 ==
    << S(13, 200, "list", "austourists_data", NoName, "", <<>>),
       S(13, 219, "date_range", "index", "pd", "", <<>>),
       S(13, 220, "series", "austourists", "pd", "",
         <<"austourists_data", "index">>),
       S(13, 221, "plot", NoName, "austourists", "", <<>>),
       S(13, 222, "pltcall", NoName, "plt", "ylabel", <<>>) >>

Cell14 ==
    << S(14, 232, "ETSModel", "model", "ETSModel", "", <<"austourists">>),
       S(14, 234, "fit", "fit", "model", "", <<>>),
       S(14, 237, "list", "params_R", NoName, "", <<>>),
       S(14, 241, "smooth", "fit_R", "model", "", <<"params_R">>),
       S(14, 243, "plot", NoName, "austourists", "", <<>>),
       S(14, 244, "pltcall", NoName, "plt", "ylabel", <<>>),
       S(14, 246, "plot", NoName, "fit", "fittedvalues", <<>>),
       S(14, 247, "plot", NoName, "fit_R", "fittedvalues", <<>>),
       S(14, 248, "pltcall", NoName, "plt", "legend", <<>>) >>

Cell15 ==
    << S(15, 257, "summary", NoName, "fit", "", <<>>) >>

Cell17 ==
    << S(17, 281, "get_prediction", "pred", "fit", "", <<>>) >>

Cell18 ==
    << S(18, 290, "summary_frame", "df", "pred", "", <<>>),
       S(18, 291, "display", NoName, "df", "", <<>>) >>

Cell20 ==
    << S(20, 309, "simulate", "simulated", "fit", "", <<>>) >>

Cell21 ==
    << S(21, 318, "for", "i", "simulated", "shape", <<>>),
       S(21, 319, "loopplot", NoName, "simulated", "iloc", <<>>),
       S(21, 320, "plot", NoName, "df", "mean", <<>>),
       S(21, 321, "plot", NoName, "df", "pi_lower", <<>>),
       S(21, 322, "plot", NoName, "df", "pi_upper", <<>>),
       S(21, 323, "plot", NoName, "pred", "endog", <<>>),
       S(21, 324, "pltcall", NoName, "plt", "legend", <<>>) >>

ProgFitFirst ==
    Cell1 \o Cell2 \o Cell4 \o Cell6FitFirst \o Cell8 \o Cell10 \o Cell11
    \o Cell13 \o Cell14 \o Cell15 \o Cell17 \o Cell18 \o Cell20 \o Cell21

ProgPlotFirst ==
    Cell1 \o Cell2 \o Cell4 \o Cell6PlotFirst \o Cell8 \o Cell10 \o Cell11
    \o Cell13 \o Cell14 \o Cell15 \o Cell17 \o Cell18 \o Cell20 \o Cell21

\* the code cells in notebook order (cell 23, the last one, is empty)
Prog ==
    Cell1 \o Cell2 \o Cell4 \o Cell6 \o Cell8 \o Cell10 \o Cell11
    \o Cell13 \o Cell14 \o Cell15 \o Cell17 \o Cell18 \o Cell20 \o Cell21

Names == {Prog[k].tgt : k \in 1..Len(Prog)} \ {NoName}

\* the list literal a "list" statement assigns
ListAt(line) ==
    CASE line = 74  -> oildata
      [] line = 115 -> params_oil
      [] line = 144 -> params_oil
      [] line = 200 -> austourists_data
      [] line = 237 -> params_austourists

\* the arguments of the pd.date_range call of a statement
RangeAt(line) ==
    CASE line = 89  -> [start |-> <<1965>>, end |-> <<2013>>, freq |-> "AS"]
      [] line = 219 -> [start |-> <<1999, 3, 1>>, end |-> <<2015, 12, 1>>,
                        freq |-> "3MS"]

\* ETSModel's keyword defaults
ETSDefaults ==
    [error |-> "add", trend |-> "None", damped_trend |-> FALSE,
     seasonal |-> "None", seasonal_periods |-> 0,
     initialization_method |-> "estimated"]

NoCfg == [ETSDefaults EXCEPT !.error = "None", !.initialization_method = "None"]

\* the keyword arguments of the ETSModel call of a statement
CfgAt(line) ==
    CASE line = 108 -> [ETSDefaults EXCEPT !.error = "add", !.trend = "add",
                                           !.damped_trend = TRUE]
      [] line = 135 -> [ETSDefaults EXCEPT !.error = "add", !.trend = "add",
                                           !.damped_trend = TRUE,
                                           !.initialization_method = "heuristic"]
      [] line = 232 -> [ETSDefaults EXCEPT !.error = "add", !.trend = "add",
                                           !.seasonal = "add",
                                           !.damped_trend = TRUE,
                                           !.seasonal_periods = 4]

\* fit.simulate(anchor="end", nsimulations=17, repetitions=100)
nsimulations == 17
repetitions  == 100
anchor       == "end"

\* the ETS name (E, T, S) of a configuration: A additive, M multiplicative,
\* N none, a trailing d for a damped trend
ETSForm(cfg) ==
    << IF cfg.error = "add" THEN "A" ELSE "M",
       IF cfg.trend = "None" THEN "N"
       ELSE (IF cfg.trend = "add" THEN "A" ELSE "M")
            \o (IF cfg.damped_trend THEN "d" ELSE ""),
       IF cfg.seasonal = "None" THEN "N"
       ELSE IF cfg.seasonal = "add" THEN "A" ELSE "M" >>

\* the ETS name the text of a statement's section gives to its model
SectionForm(line) ==
    IF line < 181 THEN <<"A", "N", "N">> ELSE <<"A", "A", "A">>

---------------------------------------------------------------------------
(* The kernel: env maps each name to the object it is bound to (0 when     *)
(* unbound), heap holds the objects in the order they were made, trace     *)
(* the calls made so far, count how often each statement was executed.     *)

Obj(kind, of, vals, index, freq, cfg, cols) ==
    [kind |-> kind, of |-> of, vals |-> vals, index |-> index,
     freq |-> freq, cfg |-> cfg, cols |-> cols]

Event(s, op, recv, arg, res, raised) ==
    [line |-> s.line, op |-> op, recv |-> recv, arg |-> arg, res |-> res,
     raised |-> raised]

Cur == Prog[pc]

\* the names a statement reads
Uses(s) ==
    (IF s.recv = NoName THEN {} ELSE {s.recv})
    \cup {s.args[k] : k \in 1..Len(s.args)}

Bound(e, names) == \A n \in names : e[n] # 0

\* the operations that run code of a library, which may raise
External ==
    {"import", "magic", "rcparams", "date_range", "series", "ETSModel",
     "fit", "smooth", "summary", "get_prediction", "summary_frame",
     "simulate", "plot", "pltcall", "loopplot"}

\* a statement raises when a library call in it does, or (NameError) when
\* it reads a name that is not bound
CanRaise(s, e) == s.op \in External \/ ~Bound(e, Uses(s))

At(op) ==
    /\ status = "running"
    /\ pc <= Len(Prog)
    /\ Cur.op = op
    /\ Bound(env, Uses(Cur))

Executed == count' = [count EXCEPT ![pc] = @ + 1]

NewId == Len(heap) + 1

InitNB ==
    /\ pc = 1
    /\ status = "running"
    /\ env = [n \in Names \cup {"ETSModel"} |-> 0]
    /\ heap = <<>>
    /\ trace = <<>>
    /\ count = [k \in 1..Len(Prog) |-> 0]
    /\ i = -1

\* import ... [as tgt]
Import ==
    /\ At("import")
    /\ heap' = Append(heap, Obj("module", 0, <<>>, <<>>, 0, NoCfg, 0))
    /\ env' = [env EXCEPT ![Cur.tgt] = NewId]
    /\ trace' = Append(trace, Event(Cur, "import", 0, 0, NewId, FALSE))
    /\ pc' = pc + 1
    /\ Executed
    /\ UNCHANGED <<status, i>>
    /\ UNCHANGED sesvars

\* %matplotlib inline
Magic ==
    /\ At("magic")
    /\ trace' = Append(trace, Event(Cur, "magic", 0, 0, 0, FALSE))
    /\ pc' = pc + 1
    /\ Executed
    /\ UNCHANGED <<status, env, heap, i>>
    /\ UNCHANGED sesvars

\* plt.rcParams['figure.figsize'] = (12, 8)
SetRcParams ==
    /\ At("rcparams")
    /\ trace' = Append(trace, Event(Cur, "rcparams", env[Cur.recv], 0, 0, FALSE))
    /\ pc' = pc + 1
    /\ Executed
    /\ UNCHANGED <<status, env, heap, i>>
    /\ UNCHANGED sesvars

\* tgt = [ ... ]
AssignList ==
    /\ At("list")
    /\ heap' = Append(heap, Obj("list", 0, ListAt(Cur.line), <<>>, 0, NoCfg, 0))
    /\ env' = [env EXCEPT ![Cur.tgt] = NewId]
    /\ trace' = Append(trace, Event(Cur, "list", 0, 0, NewId, FALSE))
    /\ pc' = pc + 1
    /\ Executed
    /\ UNCHANGED <<status, i>>
    /\ UNCHANGED sesvars

IndexObj(line) ==
    LET r == RangeAt(line)
    IN  Obj("index", 0, <<>>, date_range(r.start, r.end, r.freq),
            FreqMonths(r.freq), NoCfg, 0)

\* index = pd.date_range(start, end, freq=...)
DateRange ==
    /\ At("date_range")
    /\ heap' = Append(heap, IndexObj(Cur.line))
    /\ env' = [env EXCEPT ![Cur.tgt] = NewId]
    /\ trace' = Append(trace, Event(Cur, "date_range", env[Cur.recv], 0, NewId, FALSE))
    /\ pc' = pc + 1
    /\ Executed
    /\ UNCHANGED <<status, i>>
    /\ UNCHANGED sesvars

\* pd.Series(data, index=index) accepts data and index of the same length
SeriesOk(data, index) == Len(data) = Len(index)

\* tgt = pd.Series(data, index=...): the index is a name (line 220) or the
\* pd.date_range call written in the argument (line 89)
MakeSeries ==
    /\ At("series")
    /\ LET data   == heap[env[Cur.args[1]]]
           inline == Len(Cur.args) = 1
           idx    == IF inline THEN IndexObj(Cur.line) ELSE heap[env[Cur.args[2]]]
           idxId  == IF inline THEN NewId ELSE env[Cur.args[2]]
           h1     == IF inline THEN Append(heap, idx) ELSE heap
           serId  == Len(h1) + 1
           calls  == IF inline
                     THEN <<Event(Cur, "date_range", env[Cur.recv], 0, idxId, FALSE)>>
                     ELSE <<>>
       IN  /\ SeriesOk(data.vals, idx.index)
           /\ heap' = Append(h1, Obj("series", idxId, data.vals, idx.index,
                                     idx.freq, NoCfg, 1))
           /\ env' = [env EXCEPT ![Cur.tgt] = serId]
           /\ trace' = trace \o calls
                       \o <<Event(Cur, "Series", env[Cur.recv],
                                  env[Cur.args[1]], serId, FALSE)>>
    /\ pc' = pc + 1
    /\ Executed
    /\ UNCHANGED <<status, i>>
    /\ UNCHANGED sesvars

\* tgt = ETSModel(series, error=..., trend=..., ...)
Construct ==
    /\ At("ETSModel")
    /\ LET ser == heap[env[Cur.args[1]]]
       IN  heap' = Append(heap, Obj("model", env[Cur.args[1]], ser.vals,
                                    ser.index, ser.freq, CfgAt(Cur.line), 1))
    /\ env' = [env EXCEPT ![Cur.tgt] = NewId]
    /\ trace' = Append(trace, Event(Cur, "ETSModel", env[Cur.recv],
                                    env[Cur.args[1]], NewId, FALSE))
    /\ pc' = pc + 1
    /\ Executed
    /\ UNCHANGED <<status, i>>
    /\ UNCHANGED sesvars

\* the results object model.fit() and model.smooth(params) return
ResultsObj(modelId) ==
    LET m == heap[modelId]
    IN  Obj("results", modelId, <<>>, m.index, m.freq, m.cfg, 1)

\* tgt = recv.fit(...)
Fit ==
    /\ At("fit")
    /\ heap' = Append(heap, ResultsObj(env[Cur.recv]))
    /\ env' = [env EXCEPT ![Cur.tgt] = NewId]
    /\ trace' = Append(trace, Event(Cur, "fit", env[Cur.recv], 0, NewId, FALSE))
    /\ pc' = pc + 1
    /\ Executed
    /\ UNCHANGED <<status, i>>
    /\ UNCHANGED sesvars

\* tgt = recv.smooth(params) (line 241), or
\* tgt = recv.smooth(params).fittedvalues (lines 116 and 145)
Smooth ==
    /\ At("smooth")
    /\ LET res == ResultsObj(env[Cur.recv])
           fv  == Obj("series", NewId, <<>>, res.index, res.freq, NoCfg, 1)
       IN  IF Cur.attr = "fittedvalues"
           THEN /\ heap' = heap \o <<res, fv>>
                /\ env' = [env EXCEPT ![Cur.tgt] = NewId + 1]
           ELSE /\ heap' = Append(heap, res)
                /\ env' = [env EXCEPT ![Cur.tgt] = NewId]
    /\ trace' = Append(trace, Event(Cur, "smooth", env[Cur.recv],
                                    env[Cur.args[1]], NewId, FALSE))
    /\ pc' = pc + 1
    /\ Executed
    /\ UNCHANGED <<status, i>>
    /\ UNCHANGED sesvars

\* recv.summary(), displayed as the value of the cell
Summary ==
    /\ At("summary")
    /\ trace' = Append(trace, Event(Cur, "summary", env[Cur.recv], 0, 0, FALSE))
    /\ pc' = pc + 1
    /\ Executed
    /\ UNCHANGED <<status, env, heap, i>>
    /\ UNCHANGED sesvars

\* pred = fit.get_prediction(start='2014', end='2020'); the object keeps
\* the two ends of the requested range
GetPrediction ==
    /\ At("get_prediction")
    /\ LET r == heap[env[Cur.recv]]
       IN  heap' = Append(heap, Obj("prediction", env[Cur.recv], <<>>,
                                    <<ParseDate(<<2014>>), ParseDate(<<2020>>)>>,
                                    r.freq, r.cfg, 1))
    /\ env' = [env EXCEPT ![Cur.tgt] = NewId]
    /\ trace' = Append(trace, Event(Cur, "get_prediction", env[Cur.recv], 0,
                                    NewId, FALSE))
    /\ pc' = pc + 1
    /\ Executed
    /\ UNCHANGED <<status, i>>
    /\ UNCHANGED sesvars

\* df = pred.summary_frame(alpha=0.05): mean, pi_lower, pi_upper
SummaryFrame ==
    /\ At("summary_frame")
    /\ LET p == heap[env[Cur.recv]]
       IN  heap' = Append(heap, Obj("frame", env[Cur.recv], <<>>, p.index,
                                    p.freq, NoCfg, 3))
    /\ env' = [env EXCEPT ![Cur.tgt] = NewId]
    /\ trace' = Append(trace, Event(Cur, "summary_frame", env[Cur.recv], 0,
                                    NewId, FALSE))
    /\ pc' = pc + 1
    /\ Executed
    /\ UNCHANGED <<status, i>>
    /\ UNCHANGED sesvars

\* df, the last expression of cell 18
Display ==
    /\ At("display")
    /\ pc' = pc + 1
    /\ Executed
    /\ UNCHANGED <<status, env, heap, trace, i>>
    /\ UNCHANGED sesvars

\* a variant that starts at the last period of the sample
SimStartLastObs(index, freq, anc) == index[Len(index)]

\* the period of the first simulated value: with anchor "end" the first
\* out-of-sample period, with anchor "start" the first period of the sample
SimStart(index, freq, anc) ==
    IF anc = "end" THEN AddMonths(index[Len(index)], freq) ELSE index[1]

\* the periods of n simulated values, one period apart
SimIndex(index, freq, anc, n) ==
    [k \in 1..n |-> AddMonths(SimStart(index, freq, anc), freq * (k - 1))]

\* simulated = fit.simulate(anchor="end", nsimulations=17, repetitions=100):
\* one row per simulated period, one column per repetition
Simulate ==
    /\ At("simulate")
    /\ LET r == heap[env[Cur.recv]]
       IN  heap' = Append(heap, Obj("frame", env[Cur.recv], <<>>,
                                    SimIndex(r.index, r.freq, anchor, nsimulations),
                                    r.freq, NoCfg, repetitions))
    /\ env' = [env EXCEPT ![Cur.tgt] = NewId]
    /\ trace' = Append(trace, Event(Cur, "simulate", env[Cur.recv], 0, NewId, FALSE))
    /\ pc' = pc + 1
    /\ Executed
    /\ UNCHANGED <<status, i>>
    /\ UNCHANGED sesvars

\* recv.plot(...), recv.attr.plot(...), recv["col"].plot(...)
Plot ==
    /\ At("plot")
    /\ trace' = Append(trace, Event(Cur, "plot", env[Cur.recv], 0, 0, FALSE))
    /\ pc' = pc + 1
    /\ Executed
    /\ UNCHANGED <<status, env, heap, i>>
    /\ UNCHANGED sesvars

\* plt.ylabel(...), plt.legend()
PltCall ==
    /\ At("pltcall")
    /\ trace' = Append(trace, Event(Cur, "pltcall", env[Cur.recv], 0, 0, FALSE))
    /\ pc' = pc + 1
    /\ Executed
    /\ UNCHANGED <<status, env, heap, i>>
    /\ UNCHANGED sesvars

\* a variant that counts rows, shape[0]
LoopRangeRows(frame) == Len(frame.index)

\* range(simulated.shape[1]): the number of columns
LoopRange(frame) == frame.cols

\* for i in range(simulated.shape[1]): the range is evaluated once; with
\* an empty range the body is skipped
For ==
    /\ At("for")
    /\ IF LoopRange(heap[env[Cur.recv]]) > 0
       THEN /\ i' = 0
            /\ pc' = pc + 1
       ELSE /\ i' = i
            /\ pc' = pc + 2
    /\ Executed
    /\ UNCHANGED <<status, env, heap, trace>>
    /\ UNCHANGED sesvars

\* simulated.iloc[:,i].plot(...), then the next i or the end of the loop
LoopBody ==
    /\ At("loopplot")
    /\ trace' = Append(trace, Event(Cur, "plot", env[Cur.recv], 0, 0, FALSE))
    /\ IF i + 1 < LoopRange(heap[env[Cur.recv]])
       THEN /\ i' = i + 1
            /\ pc' = pc
       ELSE /\ i' = i
            /\ pc' = pc + 1
    /\ Executed
    /\ UNCHANGED <<status, env, heap>>
    /\ UNCHANGED sesvars

\* a variant in which the exception is swallowed and the cell goes on
RaiseAndGoOn ==
    /\ status = "running"
    /\ pc <= Len(Prog)
    /\ CanRaise(Cur, env)
    /\ trace' = Append(trace, Event(Cur, Cur.op, 0, 0, 0, TRUE))
    /\ env' = IF Cur.tgt = NoName THEN env ELSE [env EXCEPT ![Cur.tgt] = 0]
    /\ pc' = pc + 1
    /\ Executed
    /\ UNCHANGED <<status, heap, i>>
    /\ UNCHANGED sesvars

\* A statement raises.  No cell has a try statement: the exception ends
\* the execution, nothing is bound and nothing after it runs.
Raise ==
    /\ status = "running"
    /\ pc <= Len(Prog)
    /\ CanRaise(Cur, env)
    /\ status' = "raised"
    /\ trace' = Append(trace, Event(Cur, Cur.op, 0, 0, 0, TRUE))
    /\ Executed
    /\ UNCHANGED <<pc, env, heap, i>>
    /\ UNCHANGED sesvars

\* the end of the last cell
Finish ==
    /\ status = "running"
    /\ pc = Len(Prog) + 1
    /\ status' = "done"
    /\ UNCHANGED <<pc, env, heap, trace, count, i>>
    /\ UNCHANGED sesvars

---------------------------------------------------------------------------
(* Simple exponential smoothing as cell 3 prints it, run on observations   *)
(* y_0, y_1, ... with alpha = alphaNum / AlphaDen.  Levels and forecasts   *)
(* are exact fractions: after t steps a level l is held as the integer     *)
(* l * AlphaDen^t (scale = AlphaDen^t), so one step multiplies every term  *)
(* by AlphaDen.                                                            *)

AlphaDen == 2
MaxY     == 2
MaxT     == 3

\* forecast equation: yhat_{t|t-1} = l_{t-1}
ForecastEq(l) == l

\* the error that turns one formulation into the other:
\* e_t = y_t - yhat_{t|t-1}
ForecastError(y, yhat) == y - yhat

\* the error of the printed observation equation y_t = y_{t-1} + e_t
ObsError(y, yprev) == y - yprev

\* state equation: l_t = l_{t-1} + alpha e_t
StateSpaceLevel(l, e, a) == AlphaDen * l + a * e

\* smoothing equation: l_t = alpha y_{t-1} + (1 - alpha) l_{t-1}
SmoothingLevel(l, yprev, a) == a * yprev + (AlphaDen - a) * l

InitSESFixed ==
    /\ t = 0 /\ scale = 1 /\ alphaNum = 0 /\ yCur = 0
    /\ lSS = 0 /\ lSM = 0 /\ lObs = 0 /\ fSS = 0 /\ fSM = 0

\* both recursions start from the same level l_0, with y_0 observed
InitSES ==
    /\ InitNB
    /\ t = 0
    /\ scale = 1
    /\ alphaNum \in 0..AlphaDen
    /\ yCur \in 0..MaxY
    /\ \E l0 \in 0..MaxY :
          lSS = l0 /\ lSM = l0 /\ lObs = l0 /\ fSS = l0 /\ fSM = l0

\* step t -> t + 1 on the observation y = y_{t+1}; yCur is y_t
SESStep ==
    /\ t < MaxT
    /\ \E y \in 0..MaxY :
          /\ fSS' = ForecastEq(lSS)
          /\ fSM' = ForecastEq(lSM)
          /\ lSS' = StateSpaceLevel(lSS, ForecastError(y * scale, ForecastEq(lSS)),
                                    alphaNum)
          /\ lSM' = SmoothingLevel(lSM, yCur * scale, alphaNum)
          /\ lObs' = StateSpaceLevel(lObs, ObsError(y, yCur) * scale, alphaNum)
          /\ yCur' = y
    /\ t' = t + 1
    /\ scale' = scale * AlphaDen
    /\ UNCHANGED alphaNum
    /\ UNCHANGED nbvars

NextSES == SESStep

SpecSES == InitSES /\ [][NextSES]_vars


---------------------------------------------------------------------------
Init ==
    /\ InitNB
    /\ InitSESFixed

Next ==
    \/ Import
    \/ Magic
    \/ SetRcParams
    \/ AssignList
    \/ DateRange
    \/ MakeSeries
    \/ Construct
    \/ Fit
    \/ Smooth
    \/ Summary
    \/ GetPrediction
    \/ SummaryFrame
    \/ Display
    \/ Simulate
    \/ Plot
    \/ PltCall
    \/ For
    \/ LoopBody
    \/ Raise
    \/ Finish

Spec == Init /\ [][Next]_vars

---------------------------------------------------------------------------
(* Properties                                                              *)

Running == status = "running" /\ pc <= Len(Prog)

\* object id was returned by a call op made before the k-th call
ReturnedBy(op, id, k) ==
    \E j \in 1..(k - 1) :
        trace[j].op = op /\ ~trace[j].raised /\ trace[j].res = id

OnModel   == {"fit", "smooth"}
OnResults == {"get_prediction", "summary", "simulate"}

\* the statement about to run reads only names that are bound, and the
\* receiver of a model or results method is an object of that kind
ReceiverReady ==
    Running /\ Cur.op \in OnModel \cup OnResults \cup {"summary_frame"} =>
        /\ env[Cur.recv] # 0
        /\ heap[env[Cur.recv]].kind =
              (IF Cur.op \in OnModel THEN "model"
               ELSE IF Cur.op \in OnResults THEN "results" ELSE "prediction")

\* C1 as stated: every fit() and smooth() call is made on an object that an
\* earlier ETSModel() call returned, and every get_prediction(),
\* summary_frame(), summary() and simulate() call is made on an object that
\* an earlier fit() call returned.
C1_CallsFollowConstructAndFit ==
    \A k \in 1..Len(trace) :
        ~trace[k].raised =>
            /\ trace[k].op \in OnModel =>
                  ReturnedBy("ETSModel", trace[k].recv, k)
            /\ trace[k].op \in OnResults \cup {"summary_frame"} =>
                  ReturnedBy("fit", trace[k].recv, k)

\* C1 amended: every fit() and smooth() call is made on an object that an
\* earlier ETSModel() call returned; every get_prediction(), summary() and
\* simulate() call is made on an object that an earlier fit() call
\* returned; every summary_frame() call is made on the object returned by
\* an earlier get_prediction() call, itself made on the result of an
\* earlier fit(); and the receiver of each such call is bound when its
\* statement is reached.
C1_CallOrder ==
    /\ ReceiverReady
    /\ \A k \in 1..Len(trace) :
          ~trace[k].raised =>
              /\ trace[k].op \in OnModel =>
                    ReturnedBy("ETSModel", trace[k].recv, k)
              /\ trace[k].op \in OnResults =>
                    ReturnedBy("fit", trace[k].recv, k)
              /\ trace[k].op = "summary_frame" =>
                    \E j \in 1..(k - 1) :
                        /\ trace[j].op = "get_prediction"
                        /\ trace[j].res = trace[k].recv
                        /\ ReturnedBy("fit", trace[j].recv, j)

\* the whole notebook ran: three models were constructed and fitted, and
\* the prediction, its summary frame and the simulation were made
C1_Witness ==
    /\ status = "done"
    /\ Cardinality({k \in 1..Len(trace) : trace[k].op = "ETSModel"}) = 3
    /\ Cardinality({k \in 1..Len(trace) : trace[k].op = "fit"}) = 3
    /\ \E k \in 1..Len(trace) : trace[k].op = "summary_frame"
    /\ \E k \in 1..Len(trace) : trace[k].op = "simulate"

StrictlyIncreasing(index) ==
    \A k \in 1..(Len(index) - 1) : DateLT(index[k], index[k + 1])

\* C2: each dataset is a non-empty list whose length is the length of the
\* date index built for it (49 for oil, 68 for austourists), the index is
\* strictly increasing, and so each pd.Series call has data and index of
\* the same length when it is reached.
C2_DatasetsMatchIndex ==
    /\ Running /\ Cur.op = "series" /\ Bound(env, Uses(Cur)) =>
          LET data == heap[env[Cur.args[1]]].vals
              idx  == IF Len(Cur.args) = 1 THEN IndexObj(Cur.line).index
                      ELSE heap[env[Cur.args[2]]].index
          IN  /\ Len(data) > 0
              /\ Len(data) = Len(idx)
              /\ StrictlyIncreasing(idx)
    /\ env["oil"] # 0 =>
          /\ heap[env["oil"]].vals = oildata
          /\ Len(heap[env["oil"]].vals) = 49
          /\ Len(heap[env["oil"]].index) = 49
          /\ StrictlyIncreasing(heap[env["oil"]].index)
    /\ env["austourists"] # 0 =>
          /\ heap[env["austourists"]].vals = austourists_data
          /\ Len(heap[env["austourists"]].vals) = 68
          /\ Len(heap[env["austourists"]].index) = 68
          /\ StrictlyIncreasing(heap[env["austourists"]].index)

\* both series were built
C2_Witness == env["oil"] # 0 /\ env["austourists"] # 0

InQuarter(d, year, q) == d.year = year /\ Quarter(d) = q

\* C3: the sample of the simulated model ends on 2015-12-01; the first
\* simulated period is the first period after it, in the first quarter of
\* 2016; the periods are one 3-month step apart; and the first quarter of
\* 2020 is reached at step 17 and not before, 17 being nsimulations.
C3_SimulationSteps ==
    env["simulated"] # 0 =>
        LET sim == heap[env["simulated"]]
            obs == heap[sim.of]
            n   == Len(sim.index)
        IN  /\ obs.index = heap[env["austourists"]].index
            /\ obs.freq = 3
            /\ obs.index[Len(obs.index)] = [year |-> 2015, month |-> 12, day |-> 1]
            /\ sim.index[1] = AddMonths(obs.index[Len(obs.index)], obs.freq)
            /\ InQuarter(sim.index[1], 2016, 1)
            /\ \A k \in 1..(n - 1) :
                  sim.index[k + 1] = AddMonths(sim.index[k], obs.freq)
            /\ n = nsimulations
            /\ n = 17
            /\ InQuarter(sim.index[n], 2020, 1)
            /\ \A k \in 1..(n - 1) : ~InQuarter(sim.index[k], 2020, 1)

\* the simulation was run
C3_Witness == env["simulated"] # 0 /\ Len(heap[env["simulated"]].index) > 0

\* C4: every model is constructed with the ETS form that the text of its
\* section names: (A, N, N) in the simple exponential smoothing section,
\* (A, A, A) in the Holt-Winters section.
C4_ModelIsNamedForm ==
    \A k \in 1..Len(trace) :
        trace[k].op = "ETSModel" /\ ~trace[k].raised =>
            ETSForm(heap[trace[k].res].cfg) = SectionForm(trace[k].line)

\* C5: run side by side from the same initial level on the same
\* observations with the same alpha, the state space recursion (with
\* e_t = y_t - yhat_{t|t-1}) and the smoothing recursion have the same level
\* and the same one-step forecast at every step.
C5_SameRecursion ==
    t >= 1 => lSS = lSM /\ fSS = fSM

\* the phase of a call: (a) 1 load a dataset, (b) 2 construct a model,
\* (c) 3 fit, (d) 4 forecast, simulate, predict, (e) 5 plot; 0 for the
\* calls of no phase (imports, settings, parameter lists)
Phase(e) ==
    CASE e.op \in {"date_range", "Series"}                      -> 1
      [] e.op = "list" /\ e.line \in {74, 200}                  -> 1
      [] e.op = "ETSModel"                                      -> 2
      [] e.op \in {"fit", "smooth"}                             -> 3
      [] e.op \in {"get_prediction", "summary_frame", "simulate"} -> 4
      [] e.op \in {"plot", "pltcall"}                           -> 5
      [] OTHER                                                  -> 0

\* C6 as stated: no call of an earlier phase is made after a call of a
\* later phase (so both datasets are loaded before any model is
\* constructed, and no plotting call precedes a fit or prediction call).
C6_PhasesInSequence ==
    \A j, k \in 1..Len(trace) :
        j < k /\ Phase(trace[j]) # 0 /\ Phase(trace[k]) # 0 =>
            Phase(trace[j]) <= Phase(trace[k])

\* object id, or the object it was taken from, is the result of a call
\* made before the k-th call
ProducedBefore(id, k) ==
    /\ id \in 1..Len(heap)
    /\ \E j \in 1..(k - 1) :
          ~trace[j].raised /\ trace[j].res \in {id, heap[id].of}

\* C6 amended: the phases follow one another for each dataset, not for the
\* notebook as a whole: a series is built from a list loaded before it, a
\* model is constructed on a series built before it, fitted or smoothed
\* after it was constructed, predictions and simulations are made from the
\* results of an earlier fit, and every plotting call draws an object that
\* an earlier call produced and that is bound when the call is reached.
C6_PhasesPerDataset ==
    /\ Running /\ Cur.op \in {"plot", "loopplot", "pltcall", "ETSModel", "series"} =>
          Bound(env, Uses(Cur))
    /\ \A k \in 1..Len(trace) :
          ~trace[k].raised =>
              /\ trace[k].op = "Series" =>
                    ReturnedBy("list", trace[k].arg, k)
              /\ trace[k].op = "ETSModel" =>
                    ReturnedBy("Series", trace[k].arg, k)
              /\ trace[k].op \in {"fit", "smooth"} =>
                    ReturnedBy("ETSModel", trace[k].recv, k)
              /\ trace[k].op \in {"get_prediction", "simulate"} =>
                    ReturnedBy("fit", trace[k].recv, k)
              /\ trace[k].op \in {"plot", "pltcall"} =>
                    ProducedBefore(trace[k].recv, k)

\* the austourists data are loaded after an oil model was fitted and its
\* fit plotted, and the austourists model is fitted after that
C6_Witness ==
    \E j, k, m \in 1..Len(trace) :
        /\ j < k /\ k < m
        /\ trace[j].op = "plot" /\ trace[j].line = 111
        /\ trace[k].op = "Series" /\ trace[k].line = 220
        /\ trace[m].op = "fit" /\ trace[m].line = 234

\* C7 as stated: every statement is executed at most once, and exactly once
\* when the end of the last cell is reached.
C7_EachStatementOnce ==
    \A k \in 1..Len(Prog) :
        /\ count[k] <= 1
        /\ status = "done" => count[k] = 1

\* C7 amended: the code has no branch and one loop, the for statement of
\* cell 21, whose body is executed once for each of the 100 columns of
\* simulated; every other statement is executed at most once; as long as
\* no statement has raised the next statement reads only bound names (it
\* completes unless a library call in it raises); and when the
\* end of the last cell is reached every statement other than the loop
\* body was executed exactly once and the loop body exactly 100 times.
C7_ExecutionCounts ==
    /\ \A k \in 1..Len(Prog) :
          /\ Prog[k].op # "loopplot" => count[k] <= 1
          /\ Prog[k].op = "loopplot" => count[k] <= repetitions
          /\ status = "done" =>
                count[k] = (IF Prog[k].op = "loopplot" THEN 100 ELSE 1)
          /\ status = "running" /\ k < pc /\ Prog[k].op # "loopplot" => count[k] = 1
          /\ k > pc => count[k] = 0
    /\ Running => Bound(env, Uses(Cur))
    /\ status = "done" => pc = Len(Prog) + 1

\* the end was reached after 100 executions of the loop body
C7_Witness ==
    /\ status = "done"
    /\ \E k \in 1..Len(Prog) : Prog[k].op = "loopplot" /\ count[k] = 100

RaisedCalls(tr) == {k \in 1..Len(tr) : tr[k].raised}

\* C8: no failure is caught or retried: a call that raised leaves the
\* execution stopped at its statement (no step follows it, so the call is
\* not made again and no later statement runs); the step on which it raises
\* leaves every name bound to what it was bound to before and every later
\* statement of the cell not executed; and a call has failed only if the
\* execution is stopped.
C8_NoCatchNoRetry ==
    [][ /\ status # "raised"
        /\ RaisedCalls(trace') # {} =>
              /\ status' = "raised"
              /\ Cardinality(RaisedCalls(trace')) = 1
              /\ trace'[Len(trace')].raised
              /\ trace'[Len(trace')].line = Prog[pc].line
              /\ pc' = pc
              /\ env' = env
              /\ heap' = heap
              /\ count'[pc] = count[pc] + 1
              /\ \A k \in (pc + 1)..Len(Prog) :
                    Prog[k].cell = Prog[pc].cell => count'[k] = 0
      ]_vars

\* the ETSModel call of cell 14 raised: model stays bound to the oil model
C8_Witness ==
    /\ status = "raised"
    /\ Cur.line = 232
    /\ env["model"] # 0
    /\ heap[env["model"]].vals = oildata
    /\ env["austourists"] # 0
===========================================================================
